---- MODULE Spec2Model ----
(***************************************************************************)
(* A model of process_data.py: the pincode Reference Index, the field      *)
(* extractors, the column reconciler, the row enricher and the file        *)
(* pipeline.  Text values are TLA+ strings; a dataframe cell is a string   *)
(* or NaN (pandas' missing value).                                         *)
(***************************************************************************)
EXTENDS Integers, Sequences, FiniteSets, TLC

(***************************************************************************)
(* Python text primitives                                                  *)
(***************************************************************************)

\* pandas' missing value (a float, not a str); never equal to any text of the inputs
NaN == "<NaN>"

Ch(s, i) == SubSeq(s, i, i)

UpperLetters == "ABCDEFGHIJKLMNOPQRSTUVWXYZ"

LowerLetters == "abcdefghijklmnopqrstuvwxyz"

DigitChars == "0123456789"

\* the characters of a string, as a set
Chars(s) == {Ch(s, i) : i \in 1..Len(s)}

UpperSet == Chars(UpperLetters)

LowerSet == Chars(LowerLetters)

DigitSet == Chars(DigitChars)

\* the regex class \w
WordSet == UpperSet \cup LowerSet \cup DigitSet \cup {"_"}

\* the regex class \s, and what str.strip() removes
SpaceSet == {" ", "\t", "\n", "\r"}

IsDigit(c) == c \in DigitSet

IsAlpha(c) == c \in UpperSet \/ c \in LowerSet

IsWord(c) == c \in WordSet

IsSpace(c) == c \in SpaceSet

ToLower == [c \in UpperSet |-> Ch(LowerLetters, CHOOSE i \in 1..Len(UpperLetters) : Ch(UpperLetters, i) = c)]

ToUpper == [c \in LowerSet |-> Ch(UpperLetters, CHOOSE i \in 1..Len(LowerLetters) : Ch(LowerLetters, i) = c)]

lower_ch(c) == IF c \in UpperSet THEN ToLower[c] ELSE c

upper_ch(c) == IF c \in LowerSet THEN ToUpper[c] ELSE c

\* the text with every character from position i on mapped, after the mapped prefix acc
RECURSIVE lower_from(_, _, _)
lower_from(s, i, acc) == IF i > Len(s) THEN acc ELSE lower_from(s, i + 1, acc \o lower_ch(Ch(s, i)))

lower(s) == lower_from(s, 1, "")

RECURSIVE upper_from(_, _, _)
upper_from(s, i, acc) == IF i > Len(s) THEN acc ELSE upper_from(s, i + 1, acc \o upper_ch(Ch(s, i)))

upper(s) == upper_from(s, 1, "")

\* the first position from i on that holds no whitespace (Len(s) + 1 when there is none)
RECURSIVE lstrip_at(_, _)
lstrip_at(s, i) == IF i <= Len(s) /\ IsSpace(Ch(s, i)) THEN lstrip_at(s, i + 1) ELSE i

\* the last position up to j that holds no whitespace (0 when there is none)
RECURSIVE rstrip_at(_, _)
rstrip_at(s, j) == IF j >= 1 /\ IsSpace(Ch(s, j)) THEN rstrip_at(s, j - 1) ELSE j

strip(s) == SubSeq(s, lstrip_at(s, 1), rstrip_at(s, Len(s)))

\* str.title(): a letter is upper-cased after a non-letter and lower-cased after a letter
RECURSIVE title_from(_, _, _)
title_from(s, i, acc) ==
    IF i > Len(s) THEN acc
    ELSE title_from(s, i + 1,
                    acc \o (IF ~IsAlpha(Ch(s, i)) THEN Ch(s, i)
                            ELSE IF i > 1 /\ IsAlpha(Ch(s, i - 1)) THEN lower_ch(Ch(s, i))
                            ELSE upper_ch(Ch(s, i))))

title(s) == title_from(s, 1, "")

\* str(value): a text is itself, NaN prints as 'nan'
str(v) == IF v = NaN THEN "nan" ELSE v

\* isinstance(value, str)
isinstance_str(v) == v # NaN

Min(S) == CHOOSE x \in S : \A y \in S : x <= y

Max(S) == CHOOSE x \in S : \A y \in S : x >= y

\* the end of the maximal run of characters of the class cls that starts at position i (i - 1 when empty)
RECURSIVE RunEnd(_, _, _)
RunEnd(s, i, cls) == IF i <= Len(s) /\ Ch(s, i) \in cls THEN RunEnd(s, i + 1, cls) ELSE i - 1

\* the regex assertion \b between positions i - 1 and i
WordBoundary(s, i) ==
    LET before == i > 1 /\ i - 1 <= Len(s) /\ IsWord(Ch(s, i - 1))
        after == i >= 1 /\ i <= Len(s) /\ IsWord(Ch(s, i))
    IN before # after

(***************************************************************************)
(* Field extractors                                                        *)
(***************************************************************************)

\* re.search(r'\b[1-9]\d{5}\b', text) matches at position i
PincodeAt(text, i) ==
    /\ i + 5 <= Len(text)
    /\ Ch(text, i) \in DigitSet \ {"0"}
    /\ \A k \in 1..5 : IsDigit(Ch(text, i + k))
    /\ WordBoundary(text, i)
    /\ WordBoundary(text, i + 6)

extract_pincode_from_text(text) ==
    IF ~isinstance_str(text) THEN ""
    ELSE LET starts == {i \in 1..Len(text) : PincodeAt(text, i)}
         IN IF starts = {} THEN "" ELSE SubSeq(text, Min(starts), Min(starts) + 5)

PlusCodeClass == UpperSet \cup DigitSet

\* the end of the match of r'\b([A-Z0-9]{4,8}\+[A-Z0-9]{2,3})\b' that starts at i, or 0
PlusCodeEnd(t, i) ==
    LET e1 == RunEnd(t, i, PlusCodeClass)
        e2 == RunEnd(t, e1 + 2, PlusCodeClass)
        n1 == e1 - i + 1
        n2 == e2 - (e1 + 1)
    IN IF /\ WordBoundary(t, i)
          /\ n1 >= 4 /\ n1 <= 8
          /\ e1 + 1 <= Len(t) /\ Ch(t, e1 + 1) = "+"
          /\ n2 >= 2 /\ n2 <= 3
          /\ WordBoundary(t, e2 + 1)
       THEN e2 ELSE 0

extract_plus_code_coordinates(text) ==
    IF ~isinstance_str(text) THEN <<"", "">>
    ELSE LET t == upper(text)
             starts == {i \in 1..Len(t) : PlusCodeEnd(t, i) # 0}
         IN IF starts = {} THEN <<"", "">>
            ELSE <<"PLUS_CODE", SubSeq(t, Min(starts), PlusCodeEnd(t, Min(starts)))>>

\* one group [-+]?\d{1,n}\.\d+ starting at i: the position of its last character, or 0
DecimalEnd(text, i, n) ==
    LET p == IF i <= Len(text) /\ Ch(text, i) \in {"-", "+"} THEN i + 1 ELSE i
        d == RunEnd(text, p, DigitSet)
        f == RunEnd(text, d + 2, DigitSet)
    IN IF /\ d - p + 1 >= 1 /\ d - p + 1 <= n
          /\ d + 1 <= Len(text) /\ Ch(text, d + 1) = "."
          /\ f >= d + 2
       THEN f ELSE 0

\* r'([-+]?\d{1,2}\.\d+)[,\s]+([-+]?\d{1,3}\.\d+)' matched at i: <<end of group 1, start of group 2, end of group 2>>, or <<>>
CoordinatesAt(text, i) ==
    LET e1 == DecimalEnd(text, i, 2)
        s2 == RunEnd(text, e1 + 1, SpaceSet \cup {","}) + 1
        e2 == DecimalEnd(text, s2, 3)
    IN IF e1 # 0 /\ s2 > e1 + 1 /\ e2 # 0 THEN <<e1, s2, e2>> ELSE <<>>

extract_coordinates_from_text(text) ==
    IF ~isinstance_str(text) THEN <<"", "">>
    ELSE LET starts == {i \in 1..Len(text) : CoordinatesAt(text, i) # <<>>}
         IN IF starts = {} THEN <<"", "">>
            ELSE LET i == Min(starts)
                     m == CoordinatesAt(text, i)
                 IN <<SubSeq(text, i, m[1]), SubSeq(text, m[2], m[3])>>

EmailLocalClass == UpperSet \cup LowerSet \cup DigitSet \cup {".", "_", "%", "+", "-"}

EmailDomainClass == UpperSet \cup LowerSet \cup DigitSet \cup {".", "-"}

\* the class [A-Z|a-z] of the source's pattern: the bar is a member
EmailTldClass == UpperSet \cup LowerSet \cup {"|"}

\* r'\b[A-Za-z0-9._%+-]+@[A-Za-z0-9.-]+\.[A-Z|a-z]{2,}\b' matched at i: the position of its last character, or 0.
\* The domain is greedy and gives back characters until a dot, a top-level part of 2 or more and a \b follow.
EmailEnd(text, i) ==
    LET a == RunEnd(text, i, EmailLocalClass) + 1
        dEnd == RunEnd(text, a + 1, EmailDomainClass)
        TldEnds(e) == {f \in (e + 3)..RunEnd(text, e + 2, EmailTldClass) : WordBoundary(text, f + 1)}
        ends == {e \in (a + 1)..dEnd : e + 1 <= Len(text) /\ Ch(text, e + 1) = "." /\ TldEnds(e) # {}}
    IN IF /\ WordBoundary(text, i)
          /\ a > i /\ a <= Len(text) /\ Ch(text, a) = "@"
          /\ ends # {}
       THEN Max(TldEnds(Max(ends))) ELSE 0

extract_email_from_text(text) ==
    IF ~isinstance_str(text) THEN ""
    ELSE LET starts == {i \in 1..Len(text) : EmailEnd(text, i) # 0}
         IN IF starts = {} THEN "" ELSE SubSeq(text, Min(starts), EmailEnd(text, Min(starts)))

(***************************************************************************)
(* PincodeResolver: the Reference Index                                    *)
(***************************************************************************)

\* Python's None (a missing column read with row.get, a failed lookup)
None == [none |-> TRUE]

\* row.get(column, default) on a reference row: the cell, or the default when the table has no such column
row_get(columns, row, column, default) == IF column \in columns THEN row[column] ELSE default

\* str() of what row.get(column, '') returns
record_field(columns, row, column) == str(row_get(columns, row, column, ""))

\* pd.notna(row.get(column)): neither NaN nor None
notna_get(columns, row, column) == column \in columns /\ row[column] # NaN

\* df['pincode'].str.strip(): NaN stays NaN
strip_pincode(v) == IF v = NaN THEN NaN ELSE strip(v)

EmptyResolver == [lookup |-> <<>>, city_set |-> {}, state_set |-> {}]

\* the loop body with the membership test left out: a later row replaces the entry
index_row_last_wins(r, columns, row) ==
    LET pin == strip_pincode(row["pincode"])
    IN [lookup |-> [k \in DOMAIN r.lookup \cup {pin} |->
                       IF k # pin THEN r.lookup[k]
                       ELSE [district |-> record_field(columns, row, "district"),
                             statename |-> record_field(columns, row, "statename"),
                             latitude |-> record_field(columns, row, "latitude"),
                             longitude |-> record_field(columns, row, "longitude")]],
        city_set |-> IF notna_get(columns, row, "district")
                     THEN r.city_set \cup {strip(lower(str(row["district"])))} ELSE r.city_set,
        state_set |-> IF notna_get(columns, row, "statename")
                      THEN r.state_set \cup {strip(lower(str(row["statename"])))} ELSE r.state_set]

\* one iteration of the loop of __init__ over a row whose pincode is already stripped and not NaN
index_row(r, columns, row) ==
    LET pin == strip_pincode(row["pincode"])
    IN IF pin \in DOMAIN r.lookup THEN r
       ELSE [lookup |-> [k \in DOMAIN r.lookup \cup {pin} |->
                            IF k \in DOMAIN r.lookup THEN r.lookup[k]
                            ELSE [district |-> record_field(columns, row, "district"),
                                  statename |-> record_field(columns, row, "statename"),
                                  latitude |-> record_field(columns, row, "latitude"),
                                  longitude |-> record_field(columns, row, "longitude")]],
             city_set |-> IF notna_get(columns, row, "district")
                          THEN r.city_set \cup {strip(lower(str(row["district"])))} ELSE r.city_set,
             state_set |-> IF notna_get(columns, row, "statename")
                           THEN r.state_set \cup {strip(lower(str(row["statename"])))} ELSE r.state_set]

RECURSIVE index_rows(_, _, _, _)
index_rows(r, columns, rows, k) ==
    IF k > Len(rows) THEN r
    ELSE index_rows(IF strip_pincode(rows[k]["pincode"]) = NaN THEN r ELSE index_row(r, columns, rows[k]),
                    columns, rows, k + 1)

\* PincodeResolver.__init__ on a table that read_csv could parse: without a pincode column
\* df['pincode'] raises before any entry is made and the except branch leaves the index empty
PincodeResolver(columns, rows) ==
    IF "pincode" \notin columns THEN EmptyResolver
    ELSE index_rows(EmptyResolver, columns, rows, 1)

get_info(r, pincode) ==
    LET key == strip(str(pincode))
    IN IF key \in DOMAIN r.lookup THEN r.lookup[key] ELSE None

(***************************************************************************)
(* parse_address_smart                                                     *)
(***************************************************************************)

AddressSeparators == SpaceSet \cup {","}

\* re.split(r'[,\s]+', text)
RECURSIVE re_split_words(_)
re_split_words(text) ==
    LET seps == {i \in 1..Len(text) : Ch(text, i) \in AddressSeparators}
    IN IF seps = {} THEN <<text>>
       ELSE LET i == Min(seps)
                j == RunEnd(text, i, AddressSeparators)
            IN <<SubSeq(text, 1, i - 1)>> \o re_split_words(SubSeq(text, j + 1, Len(text)))

\* text.split(',')
RECURSIVE split_comma(_)
split_comma(text) ==
    LET seps == {i \in 1..Len(text) : Ch(text, i) = ","}
    IN IF seps = {} THEN <<text>>
       ELSE <<SubSeq(text, 1, Min(seps) - 1)>> \o split_comma(SubSeq(text, Min(seps) + 1, Len(text)))

\* [p.strip() for p in text.split(',') if p.strip()]
RECURSIVE strip_parts(_)
strip_parts(parts) ==
    IF parts = <<>> THEN <<>>
    ELSE (IF strip(Head(parts)) # "" THEN <<strip(Head(parts))>> ELSE <<>>) \o strip_parts(Tail(parts))

\* the first word of the list that is in the set, title-cased; '' when there is none
first_known(words, names) ==
    LET hits == {k \in 1..Len(words) : words[k] \in names}
    IN IF hits = {} THEN "" ELSE title(words[Min(hits)])

\* parse_address_smart without the early return on a successful pincode lookup
parse_address_smart_no_lookup(address_text, pincode_resolver) ==
    IF ~isinstance_str(address_text) \/ strip(address_text) = ""
    THEN [city |-> "", state |-> "", pincode |-> "", area |-> ""]
    ELSE LET text == strip(address_text)
             words == re_split_words(lower(text))
             parts == strip_parts(split_comma(text))
         IN [city |-> first_known(words, pincode_resolver.city_set),
             state |-> first_known(words, pincode_resolver.state_set),
             pincode |-> extract_pincode_from_text(text),
             area |-> IF Len(parts) > 0 THEN parts[1] ELSE ""]

parse_address_smart(address_text, pincode_resolver) ==
    LET empty == [city |-> "", state |-> "", pincode |-> "", area |-> ""]
    IN IF ~isinstance_str(address_text) \/ strip(address_text) = "" THEN empty
       ELSE LET text == strip(address_text)
                pincode == extract_pincode_from_text(text)
                info == IF pincode # "" THEN get_info(pincode_resolver, pincode) ELSE None
                words == re_split_words(lower(text))
                parts == strip_parts(split_comma(text))
            IN IF info # None
               THEN [city |-> info.district, state |-> info.statename, pincode |-> pincode, area |-> ""]
               ELSE [city |-> first_known(words, pincode_resolver.city_set),
                     state |-> first_known(words, pincode_resolver.state_set),
                     pincode |-> pincode,
                     area |-> IF Len(parts) > 0 THEN parts[1] ELSE ""]

(***************************************************************************)
(* Configuration                                                           *)
(***************************************************************************)

TARGET_COLUMNS ==
    <<"category", "sub_category", "city", "name", "area", "address",
      "phone_no_1", "phone_no2", "source", "ratings", "state", "country",
      "email", "latitude", "longitude", "reviews", "facebook_url",
      "linkdin_url", "twitter_url", "description", "pincode",
      "virtual_phone_no", "whatsapp_no", "phone_no_3", "avg_spent",
      "cost_of_two">>

TargetFields == {TARGET_COLUMNS[k] : k \in 1..Len(TARGET_COLUMNS)}

\* the alias dictionary, in its declared (iteration) order
COLUMN_ALIASES ==
    <<[target |-> "source", aliases |-> <<"website", "url", "web_link", "link", "homepage">>],
      [target |-> "phone_no_1", aliases |-> <<"phone", "mobile", "contact", "tel", "phone_number", "cell", "telephone">>],
      [target |-> "phone_no2", aliases |-> <<"phone2", "mobile2", "alternate_phone", "secondary_phone">>],
      [target |-> "name", aliases |-> <<"name", "business_name", "title", "company_name", "store_name">>],
      [target |-> "address", aliases |-> <<"address", "location", "full_address", "street", "addr">>],
      [target |-> "ratings", aliases |-> <<"rating", "stars", "review_score", "avg_rating", "reviews_average">>],
      [target |-> "reviews", aliases |-> <<"review_count", "total_reviews", "number_of_reviews", "reviews_count">>],
      [target |-> "category", aliases |-> <<"category", "type", "business_type">>],
      [target |-> "sub_category", aliases |-> <<"subcategory", "sub_category", "sub_type", "subtype">>],
      [target |-> "city", aliases |-> <<"city", "town", "district">>],
      [target |-> "state", aliases |-> <<"state", "province", "statename">>],
      [target |-> "area", aliases |-> <<"area", "locality", "neighborhood", "region">>],
      [target |-> "latitude", aliases |-> <<"latitude", "lat">>],
      [target |-> "longitude", aliases |-> <<"longitude", "lng", "long">>],
      [target |-> "email", aliases |-> <<"email", "e-mail", "mail", "contact_email">>],
      [target |-> "pincode", aliases |-> <<"pincode", "pin", "postal_code", "zip">>]>>

\* COLUMN_ALIASES[target]
aliases_of(target) ==
    COLUMN_ALIASES[CHOOSE k \in 1..Len(COLUMN_ALIASES) : COLUMN_ALIASES[k].target = target].aliases

\* the test of every "only if empty" guard: the trimmed text is '' or one of the nan-like tokens
is_empty(v) == strip(str(v)) \in {"", "nan", "NaN", "None"}

(***************************************************************************)
(* smart_map_columns: column reconciliation                                *)
(***************************************************************************)

\* sub in text (Python's substring test)
contains(text, sub) == \E i \in 1..(Len(text) - Len(sub) + 1) : SubSeq(text, i, i + Len(sub) - 1) = sub

\* name.lower().strip(), the form in which Step 1 compares a column name and an alias
normalized(name) == strip(lower(name))

\* [name.lower().strip() for name in names]
RECURSIVE normalized_all(_)
normalized_all(names) ==
    IF names = <<>> THEN <<>> ELSE <<normalized(Head(names))>> \o normalized_all(Tail(names))

\* alias.lower().strip() of every alias, entry by entry of COLUMN_ALIASES
RECURSIVE normalized_aliases_from(_)
normalized_aliases_from(k) ==
    IF k > Len(COLUMN_ALIASES) THEN <<>>
    ELSE <<normalized_all(COLUMN_ALIASES[k].aliases)>> \o normalized_aliases_from(k + 1)

NormalizedAliases == normalized_aliases_from(1)

\* [col for col in df.columns if col.lower().strip() == alias.lower().strip()],
\* norms being the normalized names of the columns
RECURSIVE matches_of(_, _, _)
matches_of(columns, norms, alias) ==
    IF columns = <<>> THEN <<>>
    ELSE (IF Head(norms) = alias THEN <<Head(columns)>> ELSE <<>>)
         \o matches_of(Tail(columns), Tail(norms), alias)

\* the inner loop over one target's aliases: the first alias whose first matching column is unclaimed
\* claims that column; '' when no alias does
RECURSIVE claim_for(_, _, _, _, _)
claim_for(columns, norms, aliases, k, used_columns) ==
    IF k > Len(aliases) THEN ""
    ELSE LET matches == matches_of(columns, norms, aliases[k])
         IN IF matches # <<>> /\ matches[1] \notin used_columns THEN matches[1]
            ELSE claim_for(columns, norms, aliases, k + 1, used_columns)

\* Step 1, the outer loop from the k-th entry of COLUMN_ALIASES on: which column each target is read from
RECURSIVE direct_mapping_from(_, _, _, _, _)
direct_mapping_from(columns, norms, k, bound, used_columns) ==
    IF k > Len(COLUMN_ALIASES) THEN [bound |-> bound, used_columns |-> used_columns]
    ELSE LET col == claim_for(columns, norms, NormalizedAliases[k], 1, used_columns)
         IN IF col = "" THEN direct_mapping_from(columns, norms, k + 1, bound, used_columns)
            ELSE direct_mapping_from(columns, norms, k + 1,
                                     [bound EXCEPT ![COLUMN_ALIASES[k].target] = col],
                                     used_columns \cup {col})

\* Step 1: nothing is bound and nothing is claimed when it starts
direct_mapping(columns) ==
    direct_mapping_from(columns, normalized_all(columns), 1,
                        [t \in TargetFields |-> ""], {})

\* Step 2: [col for col in df.columns if any(alias in col.lower() for alias in COLUMN_ALIASES["phone_no_1"])]
phone_cols(columns) ==
    LET aliases == aliases_of("phone_no_1")
        IsPhone(col) == \E k \in 1..Len(aliases) : contains(lower(col), aliases[k])
    IN SelectSeq(columns, IsPhone)

\* Step 2: with two or more phone columns phone_no2 is read from the second one
phone_override(columns, bound) ==
    IF Len(phone_cols(columns)) >= 2
    THEN [bound EXCEPT !["phone_no2"] = phone_cols(columns)[2]]
    ELSE bound

\* df[col].astype(str).replace('nan', '').replace('NaN', '') on one cell
copied_cell(v) == IF str(v) \in {"nan", "NaN"} THEN "" ELSE str(v)

\* the cell of the raw row under the named column
cell(columns, row, col) == row[CHOOSE k \in 1..Len(columns) : columns[k] = col]

\* one row of mapped_data as Step 1 and Step 2 assign it: unmapped fields stay NaN
mapped_row(columns, row, bound) ==
    [t \in TargetFields |-> IF bound[t] = "" THEN NaN ELSE copied_cell(cell(columns, row, bound[t]))]

\* Step 3: mapped_data["country"] = "India"
with_country(r) == [r EXCEPT !["country"] = "India"]

(***************************************************************************)
(* smart_map_columns: the enrichment passes, one row at a time             *)
(***************************************************************************)

\* Step 4 with the city and state guards left out: whatever the address yields is stored
extract_from_address_unguarded(r, pincode_resolver) ==
    LET addr == r["address"]
    IN IF ~isinstance_str(addr) \/ strip(addr) = "" \/ addr \in {"nan", "NaN", ""} THEN r
       ELSE LET extracted_pin == extract_pincode_from_text(addr)
                r1 == IF is_empty(r["pincode"]) /\ extracted_pin # ""
                      THEN [r EXCEPT !["pincode"] = extracted_pin] ELSE r
                parsed == parse_address_smart(addr, pincode_resolver)
            IN IF ~(is_empty(r1["city"]) \/ is_empty(r1["state"])) THEN r1
               ELSE [r1 EXCEPT !["city"] = IF parsed.city # "" THEN parsed.city ELSE @,
                               !["state"] = IF parsed.state # "" THEN parsed.state ELSE @,
                               !["area"] = IF is_empty(@) /\ parsed.area # "" THEN parsed.area ELSE @]

\* Step 4: pincode, city, state and area from the address
extract_from_address(r, pincode_resolver) ==
    LET addr == r["address"]
    IN IF ~isinstance_str(addr) \/ strip(addr) = "" \/ addr \in {"nan", "NaN", ""} THEN r
       ELSE LET extracted_pin == extract_pincode_from_text(addr)
                r1 == IF is_empty(r["pincode"]) /\ extracted_pin # ""
                      THEN [r EXCEPT !["pincode"] = extracted_pin] ELSE r
                need_city == is_empty(r1["city"])
                need_state == is_empty(r1["state"])
                parsed == parse_address_smart(addr, pincode_resolver)
            IN IF ~(need_city \/ need_state) THEN r1
               ELSE [r1 EXCEPT !["city"] = IF need_city /\ parsed.city # "" THEN parsed.city ELSE @,
                               !["state"] = IF need_state /\ parsed.state # "" THEN parsed.state ELSE @,
                               !["area"] = IF is_empty(@) /\ parsed.area # "" THEN parsed.area ELSE @]

\* Step 5: latitude and longitude from the pincode's reference record
fill_coordinates(r, pincode_resolver) ==
    LET pin == strip(str(r["pincode"]))
        need_lat == is_empty(r["latitude"])
        need_lon == is_empty(r["longitude"])
        info == get_info(pincode_resolver, pin)
    IN IF ~need_lat /\ ~need_lon THEN r
       ELSE IF pin \in {"", "nan", "NaN", "None"} \/ info = None THEN r
       ELSE [r EXCEPT !["latitude"] = IF need_lat /\ info.latitude \notin {"nan", "NaN", "", "None"}
                                      THEN info.latitude ELSE @,
                      !["longitude"] = IF need_lon /\ info.longitude \notin {"nan", "NaN", "", "None"}
                                       THEN info.longitude ELSE @]

\* Step 6 writing the short note of its second branch in both branches
flag_plus_code_short_note(r) ==
    LET area_val == strip(str(r["area"]))
        found == extract_plus_code_coordinates(area_val)
        current_desc == strip(str(r["description"]))
    IN IF area_val \in {"", "nan", "NaN", "None"} \/ found[1] # "PLUS_CODE" THEN r
       ELSE IF current_desc \in {"", "nan", "NaN", "None"}
       THEN [r EXCEPT !["description"] = "Plus Code: " \o found[2]]
       ELSE [r EXCEPT !["description"] = current_desc \o " | Plus Code: " \o found[2]]

\* Step 6: a Plus Code found in area is noted in description
flag_plus_code(r) ==
    LET area_val == strip(str(r["area"]))
        found == extract_plus_code_coordinates(area_val)
        current_desc == strip(str(r["description"]))
    IN IF area_val \in {"", "nan", "NaN", "None"} \/ found[1] # "PLUS_CODE" THEN r
       ELSE IF current_desc \in {"", "nan", "NaN", "None"}
       THEN [r EXCEPT !["description"] = "Google Plus Code: " \o found[2]]
       ELSE [r EXCEPT !["description"] = current_desc \o " | Plus Code: " \o found[2]]

\* Step 7 storing both coordinates as soon as one of them is missing
coordinates_from_url_both(r) ==
    LET need_lat == is_empty(r["latitude"])
        need_lon == is_empty(r["longitude"])
        source == strip(str(r["source"]))
        found == extract_coordinates_from_text(source)
    IN IF ~(need_lat \/ need_lon) THEN r
       ELSE IF source \in {"", "nan", "NaN", "None"} THEN r
       ELSE IF found[1] = "" \/ found[2] = "" THEN r
       ELSE [r EXCEPT !["latitude"] = found[1], !["longitude"] = found[2]]

\* Step 7: latitude and longitude from the source URL
coordinates_from_url(r) ==
    LET need_lat == is_empty(r["latitude"])
        need_lon == is_empty(r["longitude"])
        source == strip(str(r["source"]))
        found == extract_coordinates_from_text(source)
    IN IF ~(need_lat \/ need_lon) THEN r
       ELSE IF source \in {"", "nan", "NaN", "None"} THEN r
       ELSE IF found[1] = "" \/ found[2] = "" THEN r
       ELSE [r EXCEPT !["latitude"] = IF need_lat THEN found[1] ELSE @,
                      !["longitude"] = IF need_lon THEN found[2] ELSE @]

\* Step 8, the inner loop: the first of address, description, source that holds an email
RECURSIVE first_email(_, _, _)
first_email(r, fields, k) ==
    IF k > Len(fields) THEN ""
    ELSE LET field_value == strip(str(r[fields[k]]))
             email == IF field_value \in {"", "nan", "NaN", "None"} THEN ""
                      ELSE extract_email_from_text(field_value)
         IN IF email # "" THEN email ELSE first_email(r, fields, k + 1)

\* Step 8: the email from the row's texts
extract_emails(r) ==
    LET email == first_email(r, <<"address", "description", "source">>, 1)
    IN IF is_empty(r["email"]) /\ email # "" THEN [r EXCEPT !["email"] = email] ELSE r

\* mapped_data.replace(['nan', 'NaN', 'None'], ''): whole values only, a NaN cell stays NaN
clean_up(r) == [t \in TargetFields |-> IF r[t] \in {"nan", "NaN", "None"} THEN "" ELSE r[t]]

\* a pass of smart_map_columns over every row (for i in range(len(mapped_data)))
extract_from_address_all(rows, pincode_resolver) == [i \in 1..Len(rows) |-> extract_from_address(rows[i], pincode_resolver)]

fill_coordinates_all(rows, pincode_resolver) == [i \in 1..Len(rows) |-> fill_coordinates(rows[i], pincode_resolver)]

flag_plus_code_all(rows) == [i \in 1..Len(rows) |-> flag_plus_code(rows[i])]

coordinates_from_url_all(rows) == [i \in 1..Len(rows) |-> coordinates_from_url(rows[i])]

extract_emails_all(rows) == [i \in 1..Len(rows) |-> extract_emails(rows[i])]

clean_up_all(rows) == [i \in 1..Len(rows) |-> clean_up(rows[i])]

(***************************************************************************)
(* State                                                                   *)
(***************************************************************************)

VARIABLES
    pc,               \* where the run is
    reference,        \* the reference table on disk: [status, columns, rows]
    pincode_resolver, \* the Reference Index: [lookup, city_set, state_set]
    query,            \* the last argument of get_info
    info,             \* what get_info returned for it
    df,               \* the raw dataframe of the file being processed: [columns, rows]
    source_of,        \* which raw column each target field was read from ('' for none)
    used_columns,     \* the raw columns claimed by Step 1
    mapped_data,      \* the rows of the output dataframe
    reconciled,       \* mapped_data as Steps 1 to 3 left it
    csv_files,        \* the input files found, in processing order
    fate,             \* what the environment does to each file: where its processing fails, if anywhere
    file_idx,         \* the index of the file process_file is working on
    stage,            \* the step of process_file the current file is at
    success_count,    \* main's counter
    output_dir,       \* the files of OUTPUT_DIR: path -> content
    attempted,        \* the files handed to process_file so far, in order
    exit_status       \* the status the command ends with (-1 while running)

vars == <<pc, reference, pincode_resolver, query, info, df, source_of, used_columns, mapped_data,
          reconciled, csv_files, fate, file_idx, stage, success_count, output_dir, attempted, exit_status>>

indexVars == <<reference, pincode_resolver, query, info>>

mapVars == <<df, source_of, used_columns, mapped_data, reconciled>>

mainVars == <<csv_files, fate, file_idx, stage, success_count, output_dir, attempted, exit_status>>

(***************************************************************************)
(* Inputs                                                                  *)
(***************************************************************************)

\* the largest number of columns of a raw file whose headers are enumerated
MaxCols == 3

\* the largest number of rows of a reference table whose rows are enumerated
MaxRefRows == 3

\* the largest number of input files of a run
MaxFiles == 3

ReferenceColumns == {"pincode", "district", "statename", "latitude", "longitude"}

RefRow(pin, district, statename, lat, lon) ==
    [pincode |-> pin, district |-> district, statename |-> statename, latitude |-> lat, longitude |-> lon]

\* a reference table as read_csv returns it: two rows for 560001, a row without latitude, a row without pincode
ReferenceTable ==
    <<RefRow("560001", "Bangalore", "Karnataka", "12.9716", "77.5946"),
      RefRow(" 560001 ", "Bengaluru Urban", "KA", "13.0000", "77.0000"),
      RefRow("570001", " Mysore", "Karnataka", NaN, "76.6394"),
      RefRow(NaN, "Hubli", "Goa", "15.3647", "75.1240")>>

\* the reference file of a run: absent; present but not readable as CSV; present without a
\* pincode column; present and well-formed
References ==
    {[status |-> "missing", columns |-> {}, rows |-> <<>>],
     [status |-> "unreadable", columns |-> ReferenceColumns, rows |-> ReferenceTable],
     [status |-> "present", columns |-> ReferenceColumns \ {"pincode"}, rows |-> ReferenceTable],
     [status |-> "present", columns |-> ReferenceColumns, rows |-> ReferenceTable]}

Injective(f) == \A a, b \in DOMAIN f : a # b => f[a] # f[b]

\* headers as files spell them; pandas keeps the names of a frame distinct
HeaderPool == {"Phone", "Mobile", "phone2", "Contact_Email", " TELEPHONE ", "Address", "LATITUDE"}

HeaderCell(name) ==
    CASE name = "Phone" -> "9845011111"
      [] name = "Mobile" -> "9845022222"
      [] name = "phone2" -> "9845033333"
      [] name = "Contact_Email" -> "sales@shop.in"
      [] name = " TELEPHONE " -> "08026612345"
      [] name = "Address" -> "12, MG Road, Bangalore 560001"
      [] OTHER -> " "

\* one-row frames over every list of at most MaxCols distinct headers
HeaderFrames ==
    {[columns |-> h, rows |-> <<[k \in 1..Len(h) |-> HeaderCell(h[k])]>>] :
        h \in {g \in UNION {[1..n -> HeaderPool] : n \in 1..MaxCols} : Injective(g)}}

CellColumns == <<"Address", "PIN", "City", "State", "Locality", "Lat", "Lng", "Website", "E-mail">>

CellValues ==
    <<{NaN, "12, MG Road, Bangalore 560001", "R9P7+8RC, Mysore karnataka", "Shop 4, Pune 411001, a@b.co"},
      {NaN, "560001", "570001"},
      {NaN, "Hubli"},
      {NaN, "Goa"},
      {NaN, "GF4R+2Q Indiranagar"},
      {NaN, "15.3647"},
      {NaN, "75.1240"},
      {NaN, "https://x.in/@12.9716,77.5946?m=care@x.in"},
      {NaN, "info@shop.in"}>>

\* one-row frames over every combination of cell values under fixed headers
CellFrames ==
    {[columns |-> CellColumns, rows |-> <<<<c1, c2, c3, c4, c5, c6, c7, c8, c9>>>>] :
        c1 \in CellValues[1], c2 \in CellValues[2], c3 \in CellValues[3], c4 \in CellValues[4],
        c5 \in CellValues[5], c6 \in CellValues[6], c7 \in CellValues[7], c8 \in CellValues[8],
        c9 \in CellValues[9]}

\* two-row frames: every pass walks all rows
PairRows ==
    {<<"12, MG Road, Bangalore 560001", NaN>>, <<"R9P7+8RC, Mysore karnataka", "570001">>, <<NaN, "560001">>}

PairFrames == {[columns |-> <<"Address", "Pin">>, rows |-> <<a, b>>] : a, b \in PairRows}

DataFrames == HeaderFrames \cup CellFrames \cup PairFrames

(***************************************************************************)
(* main's reference set-up and smart_map_columns on one file               *)
(***************************************************************************)

\* the reference set-up with a failed read leaving the entries of the rows on disk in the index
load_reference_partial(ref) ==
    IF ref.status = "missing" THEN EmptyResolver
    ELSE PincodeResolver(ref.columns \cup {"pincode"}, ref.rows)

\* main: a missing file gives an empty index without calling __init__; otherwise __init__ runs,
\* and a table read_csv cannot read raises inside its try before any entry is made
load_reference(ref) ==
    IF ref.status = "missing" THEN EmptyResolver
    ELSE IF ref.status = "unreadable" THEN EmptyResolver
    ELSE PincodeResolver(ref.columns, ref.rows)

Unbound == [t \in TargetFields |-> ""]

IdleMap ==
    /\ df = [columns |-> <<>>, rows |-> <<>>]
    /\ source_of = Unbound
    /\ used_columns = {}
    /\ mapped_data = <<>>
    /\ reconciled = <<>>

IdleMain ==
    /\ csv_files = <<>>
    /\ fate = <<>>
    /\ file_idx = 0
    /\ stage = "idle"
    /\ success_count = 0
    /\ output_dir = <<>>
    /\ attempted = <<>>
    /\ exit_status = -1

InitMap ==
    /\ pc = "start"
    /\ reference \in References
    /\ pincode_resolver = EmptyResolver
    /\ query = ""
    /\ info = None
    /\ df \in DataFrames
    /\ source_of = Unbound
    /\ used_columns = {}
    /\ mapped_data = <<>>
    /\ reconciled = <<>>
    /\ IdleMain

LoadReference ==
    /\ pc = "start"
    /\ pincode_resolver' = load_reference(reference)
    /\ pc' = "loaded"
    /\ UNCHANGED <<reference, query, info, mapVars, mainVars>>

\* Step 1
DirectMapping ==
    /\ pc = "loaded"
    /\ source_of' = direct_mapping(df.columns).bound
    /\ used_columns' = direct_mapping(df.columns).used_columns
    /\ mapped_data' = [i \in 1..Len(df.rows) |-> mapped_row(df.columns, df.rows[i], source_of')]
    /\ pc' = "mapped"
    /\ UNCHANGED <<indexVars, df, reconciled, mainVars>>

\* Steps 2 and 3
PhoneAndCountry ==
    /\ pc = "mapped"
    /\ source_of' = phone_override(df.columns, source_of)
    /\ mapped_data' = [i \in 1..Len(df.rows) |-> with_country(mapped_row(df.columns, df.rows[i], source_of'))]
    /\ reconciled' = mapped_data'
    /\ pc' = "reconciled"
    /\ UNCHANGED <<indexVars, df, used_columns, mainVars>>

\* Step 4
ExtractFromAddress ==
    /\ pc = "reconciled"
    /\ mapped_data' = extract_from_address_all(mapped_data, pincode_resolver)
    /\ pc' = "addressed"
    /\ UNCHANGED <<indexVars, df, source_of, used_columns, reconciled, mainVars>>

\* Step 5
FillCoordinates ==
    /\ pc = "addressed"
    /\ mapped_data' = fill_coordinates_all(mapped_data, pincode_resolver)
    /\ pc' = "located"
    /\ UNCHANGED <<indexVars, df, source_of, used_columns, reconciled, mainVars>>

\* Step 6
FlagPlusCodes ==
    /\ pc = "located"
    /\ mapped_data' = flag_plus_code_all(mapped_data)
    /\ pc' = "flagged"
    /\ UNCHANGED <<indexVars, df, source_of, used_columns, reconciled, mainVars>>

\* Step 7
CoordinatesFromUrl ==
    /\ pc = "flagged"
    /\ mapped_data' = coordinates_from_url_all(mapped_data)
    /\ pc' = "traced"
    /\ UNCHANGED <<indexVars, df, source_of, used_columns, reconciled, mainVars>>

\* Step 8
ExtractEmails ==
    /\ pc = "traced"
    /\ mapped_data' = extract_emails_all(mapped_data)
    /\ pc' = "emailed"
    /\ UNCHANGED <<indexVars, df, source_of, used_columns, reconciled, mainVars>>

\* the final replace, and the return
CleanUp ==
    /\ pc = "emailed"
    /\ mapped_data' = clean_up_all(mapped_data)
    /\ pc' = "done"
    /\ UNCHANGED <<indexVars, df, source_of, used_columns, reconciled, mainVars>>

NextMap ==
    \/ LoadReference
    \/ DirectMapping
    \/ PhoneAndCountry
    \/ ExtractFromAddress
    \/ FillCoordinates
    \/ FlagPlusCodes
    \/ CoordinatesFromUrl
    \/ ExtractEmails
    \/ CleanUp

SpecMap == InitMap /\ [][NextMap]_vars

(***************************************************************************)
(* Column reconciliation: claims C2 and C3                                 *)
(***************************************************************************)

Reconciled == pc \notin {"start", "loaded", "mapped"}

\* C2: once Step 1 and the second-phone special case have run, no raw column supplies the
\* values of two canonical fields.
C2_OneColumnOneField ==
    Reconciled =>
        \A t1, t2 \in TargetFields :
            (t1 # t2 /\ source_of[t1] # "") => source_of[t1] # source_of[t2]

\* the columns whose whole name is, case-insensitively, an alias of the target, in source order
exact_columns(columns, target) ==
    LET aliases == aliases_of(target)
        Exact(col) == \E j \in 1..Len(aliases) : normalized(col) = normalized(aliases[j])
    IN SelectSeq(columns, Exact)

\* the first column named by the earliest alias of the target that names any column ('' for none)
earliest_alias_column(columns, target) ==
    LET aliases == aliases_of(target)
        Named(j) == {k \in 1..Len(columns) : normalized(columns[k]) = normalized(aliases[j])}
        hits == {j \in 1..Len(aliases) : Named(j) # {}}
    IN IF hits = {} THEN "" ELSE columns[Min(Named(Min(hits)))]

\* C3: phone_no_1 is read from the column named by its earliest matching alias; phone_no2 is
\* read from the second column whose whole name is a phone alias exactly when there are two
\* or more such columns, and from the column its own alias list names otherwise.
C3_PhoneBinding ==
    Reconciled =>
        /\ source_of["phone_no_1"] = earliest_alias_column(df.columns, "phone_no_1")
        /\ source_of["phone_no2"] =
              IF Len(exact_columns(df.columns, "phone_no_1")) >= 2
              THEN exact_columns(df.columns, "phone_no_1")[2]
              ELSE earliest_alias_column(df.columns, "phone_no2")

(***************************************************************************)
(* Row enrichment: claims C1, C4, C5, C9 and C10                           *)
(***************************************************************************)

Rows == 1..Len(mapped_data)

Enriching == pc \in {"addressed", "located", "flagged", "traced", "emailed", "done"}

\* C1: a field that is non-empty once the columns are reconciled keeps exactly that value
\* through every enrichment pass and in the output; this holds of every field, description
\* included.
C1_NonDestructive ==
    Enriching =>
        \A i \in Rows : \A t \in TargetFields :
            ~is_empty(reconciled[i][t]) => mapped_data[i][t] = reconciled[i][t]

\* a row kept its city although its address named another one, while its state was filled
C1_Witness ==
    /\ pc = "done"
    /\ \E i \in Rows :
          /\ reconciled[i]["city"] = "Hubli"
          /\ is_empty(reconciled[i]["state"])
          /\ parse_address_smart(reconciled[i]["address"], pincode_resolver).city = "Bangalore"
          /\ mapped_data[i]["state"] = "Karnataka"
          /\ mapped_data[i]["city"] = "Hubli"

ends_with(text, tail) == Len(text) >= Len(tail) /\ SubSeq(text, Len(text) - Len(tail) + 1, Len(text)) = tail

starts_with(text, head) == Len(text) >= Len(head) /\ SubSeq(text, 1, Len(head)) = head

\* what the claim says of one row across the flagging pass
plus_code_flagged(before, after) ==
    LET area_val == strip(str(before["area"]))
        found == extract_plus_code_coordinates(area_val)
        has_code == ~is_empty(area_val) /\ found[1] = "PLUS_CODE"
        note == "Google Plus Code: " \o found[2]
        previous == strip(str(before["description"]))
    IN /\ after["latitude"] = before["latitude"]
       /\ after["longitude"] = before["longitude"]
       /\ ~has_code => after["description"] = before["description"]
       /\ (has_code /\ is_empty(before["description"])) => after["description"] = note
       /\ (has_code /\ ~is_empty(before["description"])) =>
             /\ starts_with(after["description"], previous)
             /\ ends_with(after["description"], note)
             /\ Len(after["description"]) > Len(previous) + Len(note)

usable_address(addr) == isinstance_str(addr) /\ strip(addr) # "" /\ addr \notin {"nan", "NaN", ""}

\* city and state as the record of the pincode gives them, and no area taken from the address
filled_from_record(before, after, record) ==
    /\ is_empty(before["city"]) => after["city"] = record.district
    /\ is_empty(before["state"]) => after["state"] = record.statename
    /\ after["area"] = before["area"]

\* C5 as stated: whenever the row's pincode is known after pass 1, from the pincode column
\* or from the address, and the index has a record for it, the empty ones of city and state
\* are filled from that record and the address is not scanned further.
C5_KnownPincodeFillsCityState ==
    pc = "addressed" =>
        \A i \in Rows :
            (/\ usable_address(reconciled[i]["address"])
             /\ is_empty(reconciled[i]["city"]) \/ is_empty(reconciled[i]["state"])
             /\ ~is_empty(mapped_data[i]["pincode"])
             /\ get_info(pincode_resolver, mapped_data[i]["pincode"]) # None)
            => filled_from_record(reconciled[i], mapped_data[i],
                                  get_info(pincode_resolver, mapped_data[i]["pincode"]))

\* C5 as amended: it is the first pincode token of the address that is looked up, whatever
\* the pincode field holds; when the index has a record for that token the empty ones of
\* city and state are filled from it (a value of the record that is the empty text fills
\* nothing), the address is not scanned further, and an empty pincode becomes the token.
C5_AddressPincodeFillsCityState ==
    pc = "addressed" =>
        \A i \in Rows :
            LET before == reconciled[i]
                after == mapped_data[i]
                token == extract_pincode_from_text(before["address"])
                record == get_info(pincode_resolver, token)
            IN (/\ usable_address(before["address"])
                /\ is_empty(before["city"]) \/ is_empty(before["state"])
                /\ token # ""
                /\ record # None)
               => /\ (is_empty(before["city"]) /\ record.district # "") => after["city"] = record.district
                  /\ (is_empty(before["state"]) /\ record.statename # "") => after["state"] = record.statename
                  /\ after["area"] = before["area"]
                  /\ is_empty(before["pincode"]) => after["pincode"] = token

\* the address named a pincode of the index and city, state and pincode came from it
C5_Witness ==
    /\ pc = "addressed"
    /\ \E i \in Rows :
          /\ is_empty(reconciled[i]["city"])
          /\ is_empty(reconciled[i]["state"])
          /\ is_empty(reconciled[i]["pincode"])
          /\ extract_pincode_from_text(reconciled[i]["address"]) = "560001"
          /\ mapped_data[i]["pincode"] = "560001"
          /\ mapped_data[i]["city"] = "Bangalore"
          /\ mapped_data[i]["state"] = "Karnataka"

\* the value clean_up leaves of a cell
cleaned(v) == IF v \in {"nan", "NaN", "None"} THEN "" ELSE v

\* the coordinate (1 for latitude, 2 for longitude) the claim's order of sources gives a row
expected_coordinate(before, after, resolver, field, k) ==
    LET pin == strip(str(after["pincode"]))
        record == get_info(resolver, pin)
        source == strip(str(before["source"]))
        found == extract_coordinates_from_text(source)
    IN IF ~is_empty(before[field]) THEN before[field]
       ELSE IF ~is_empty(pin) /\ record # None /\ ~is_empty(record[field]) THEN record[field]
       ELSE IF ~is_empty(source) /\ found[k] # "" THEN found[k]
       ELSE ""

\* C10: latitude and longitude each come from the first source that has a value: the
\* reconciled cell, then the record of the row's pincode, then the pair found in source;
\* with none of them the coordinate is empty.
C10_CoordinatePrecedence ==
    pc = "done" =>
        \A i \in Rows :
            /\ IF expected_coordinate(reconciled[i], mapped_data[i], pincode_resolver, "latitude", 1) = ""
               THEN is_empty(mapped_data[i]["latitude"])
               ELSE mapped_data[i]["latitude"] =
                       expected_coordinate(reconciled[i], mapped_data[i], pincode_resolver, "latitude", 1)
            /\ IF expected_coordinate(reconciled[i], mapped_data[i], pincode_resolver, "longitude", 2) = ""
               THEN is_empty(mapped_data[i]["longitude"])
               ELSE mapped_data[i]["longitude"] =
                       expected_coordinate(reconciled[i], mapped_data[i], pincode_resolver, "longitude", 2)

\* the record had no latitude, so latitude came from the URL while longitude came from the record
C10_Witness ==
    /\ pc = "done"
    /\ \E i \in Rows :
          /\ is_empty(reconciled[i]["latitude"])
          /\ is_empty(reconciled[i]["longitude"])
          /\ get_info(pincode_resolver, mapped_data[i]["pincode"]) # None
          /\ mapped_data[i]["longitude"] = get_info(pincode_resolver, mapped_data[i]["pincode"]).longitude
          /\ mapped_data[i]["latitude"] = extract_coordinates_from_text(reconciled[i]["source"])[1]
          /\ mapped_data[i]["longitude"] # extract_coordinates_from_text(reconciled[i]["source"])[2]

\* the reference table is missing, or cannot be read, or lacks the column the index is keyed on
reference_failed(ref) == ref.status # "present" \/ "pincode" \notin ref.columns

\* the email Step 8 finds for a row whose description holds no address of its own
expected_email(before) ==
    LET in_address == IF is_empty(before["address"]) THEN ""
                      ELSE extract_email_from_text(strip(str(before["address"])))
        in_source == IF is_empty(before["source"]) THEN ""
                     ELSE extract_email_from_text(strip(str(before["source"])))
    IN IF in_address # "" THEN in_address ELSE in_source

\* what a run without a usable reference makes of one row
degraded_row(before, after) ==
    LET token == extract_pincode_from_text(before["address"])
        found == extract_coordinates_from_text(strip(str(before["source"])))
    IN /\ after["city"] = cleaned(before["city"])
       /\ after["state"] = cleaned(before["state"])
       /\ after["latitude"] \in {cleaned(before["latitude"]), found[1]}
       /\ after["longitude"] \in {cleaned(before["longitude"]), found[2]}
       /\ (usable_address(before["address"]) /\ is_empty(before["pincode"]) /\ token # "")
             => after["pincode"] = token
       /\ (is_empty(before["latitude"]) /\ ~is_empty(before["source"]) /\ found[1] # "")
             => after["latitude"] = found[1]
       /\ (is_empty(before["longitude"]) /\ ~is_empty(before["source"]) /\ found[2] # "")
             => after["longitude"] = found[2]
       /\ (is_empty(before["email"]) /\ expected_email(before) # "")
             => after["email"] = expected_email(before)

\* C9: with the reference table missing or unreadable the index is wholly empty, and the
\* file processed by that run takes no city, state, latitude or longitude from the reference
\* in its output, while pincodes from addresses, coordinates from URLs and emails are still
\* extracted.
C9_ReferenceFailureDegrades ==
    reference_failed(reference) =>
        /\ pc # "start" => pincode_resolver = EmptyResolver
        /\ pc = "done" => \A i \in Rows : degraded_row(reconciled[i], mapped_data[i])

\* without a reference a row still got its pincode from the address, its coordinates from
\* the URL and its email from the URL, and no city
C9_Witness ==
    /\ reference_failed(reference)
    /\ pc = "done"
    /\ \E i \in Rows :
          /\ is_empty(reconciled[i]["pincode"])
          /\ mapped_data[i]["pincode"] = "560001"
          /\ is_empty(mapped_data[i]["city"])
          /\ is_empty(reconciled[i]["latitude"])
          /\ mapped_data[i]["latitude"] = "12.9716"
          /\ mapped_data[i]["email"] = "care@x.in"

(***************************************************************************)
(* The Reference Index on its own: claim C8                                *)
(***************************************************************************)

RefRowPool ==
    {RefRow("560001", "Bangalore", "Karnataka", "12.9716", "77.5946"),
     RefRow(" 560001 ", "Bengaluru Urban", "KA", "13.0000", "77.0000"),
     RefRow("570001", " Mysore", "Karnataka", NaN, "76.6394"),
     RefRow("570001", "Mandya", NaN, "12.5218", "76.8951"),
     RefRow(NaN, "Hubli", "Goa", "15.3647", "75.1240")}

\* well-formed reference tables of at most MaxRefRows rows
IndexReferences ==
    {[status |-> "present", columns |-> ReferenceColumns, rows |-> rows] :
        rows \in UNION {[1..n -> RefRowPool] : n \in 0..MaxRefRows}}

Queries == {"560001", " 570001", "570001 ", "411001"}

InitIndex ==
    /\ pc = "start"
    /\ reference \in IndexReferences
    /\ pincode_resolver = EmptyResolver
    /\ query = ""
    /\ info = None
    /\ IdleMap
    /\ IdleMain

\* a call of get_info
Lookup ==
    /\ pc \in {"loaded", "looked"}
    /\ \E q \in Queries :
          /\ query' = q
          /\ info' = get_info(pincode_resolver, q)
    /\ pc' = "looked"
    /\ UNCHANGED <<reference, pincode_resolver, mapVars, mainVars>>

NextIndex ==
    \/ LoadReference
    \/ Lookup

SpecIndex == InitIndex /\ [][NextIndex]_vars

\* the record the index keeps of a reference row
record_of(row) ==
    [district |-> str(row["district"]), statename |-> str(row["statename"]),
     latitude |-> str(row["latitude"]), longitude |-> str(row["longitude"])]

\* the first row of the table that carries the pincode, trimmed
first_row_with(rows, pin) ==
    rows[Min({k \in 1..Len(rows) : rows[k]["pincode"] # NaN /\ strip(rows[k]["pincode"]) = pin})]

\* C8: after the build every trimmed pincode of the table maps to the record of the first
\* row that carries it, rows without a pincode make no entry, and get_info trims its
\* argument and returns that record, or nothing for a pincode the table lacks.
C8_FirstWriteWins ==
    LET rows == reference.rows
        pins == {strip(rows[k]["pincode"]) : k \in {j \in 1..Len(rows) : rows[j]["pincode"] # NaN}}
    IN /\ pc # "start" =>
             /\ DOMAIN pincode_resolver.lookup = pins
             /\ \A pin \in pins : pincode_resolver.lookup[pin] = record_of(first_row_with(rows, pin))
       /\ pc = "looked" =>
             info = IF strip(query) \in pins THEN record_of(first_row_with(rows, strip(query))) ELSE None

\* two rows carry the same pincode with different districts; the lookup of that pincode,
\* passed with surrounding blanks, returns the first row's record
C8_Witness ==
    /\ pc = "looked"
    /\ query = " 570001"
    /\ Len(reference.rows) = 3
    /\ reference.rows[1]["pincode"] = NaN
    /\ reference.rows[2]["district"] = "Mandya"
    /\ reference.rows[3]["district"] = " Mysore"
    /\ info # None
    /\ info.district = "Mandya"

(***************************************************************************)
(* main and process_file: claims C6 and C7                                 *)
(***************************************************************************)

\* Path(name).stem: the name without its last suffix
stem(name) ==
    LET dots == {i \in 2..Len(name) : Ch(name, i) = "."}
    IN IF dots = {} THEN name ELSE SubSeq(name, 1, Max(dots) - 1)

\* every file writes the same path
output_path_shared(csv_file) == "data/processed/" \o "cleaned.csv"

\* os.path.join(OUTPUT_DIR, f"{csv_file.stem}_cleaned.csv")
output_path(csv_file) == "data/processed/" \o stem(csv_file) \o "_cleaned.csv"

\* the status of a command whose main() returns
EXIT_OK == 0

FileNames == {"a.csv", "b.csv", "a.b.csv", "shops.csv"}

\* where the processing of a file raises, if anywhere
Fates == {"none", "read", "map", "write"}

InitMain ==
    /\ pc = "start"
    /\ reference \in References
    /\ pincode_resolver = EmptyResolver
    /\ query = ""
    /\ info = None
    /\ IdleMap
    /\ csv_files \in {g \in UNION {[1..n -> FileNames] : n \in 0..MaxFiles} : Injective(g)}
    /\ fate \in [1..Len(csv_files) -> Fates]
    /\ file_idx = 0
    /\ stage = "idle"
    /\ success_count = 0
    /\ output_dir = <<>>
    /\ attempted = <<>>
    /\ exit_status = -1

\* main up to its loop: the index is set up, the files are listed, and with no file main returns
StartRun ==
    /\ pc = "start"
    /\ pincode_resolver' = load_reference(reference)
    /\ IF csv_files = <<>>
       THEN /\ pc' = "exit"
            /\ exit_status' = EXIT_OK
            /\ UNCHANGED <<file_idx, stage, attempted>>
       ELSE /\ pc' = "loop"
            /\ file_idx' = 1
            /\ stage' = "read"
            /\ attempted' = <<csv_files[1]>>
            /\ UNCHANGED exit_status
    /\ UNCHANGED <<reference, query, info, mapVars, csv_files, fate, success_count, output_dir>>

\* process_file has returned: the loop takes the next file, or main prints its count and returns
NextFile ==
    IF file_idx < Len(csv_files)
    THEN /\ file_idx' = file_idx + 1
         /\ stage' = "read"
         /\ attempted' = Append(attempted, csv_files[file_idx + 1])
         /\ UNCHANGED <<pc, exit_status>>
    ELSE /\ pc' = "exit"
         /\ stage' = "idle"
         /\ exit_status' = EXIT_OK
         /\ UNCHANGED <<file_idx, attempted>>

\* pd.read_csv, in utf-8 and then in ISO-8859-1; its exception is caught and False returned
ReadCsv ==
    /\ pc = "loop" /\ stage = "read"
    /\ IF fate[file_idx] = "read"
       THEN NextFile
       ELSE /\ stage' = "map"
            /\ UNCHANGED <<pc, file_idx, attempted, exit_status>>
    /\ UNCHANGED <<indexVars, mapVars, csv_files, fate, success_count, output_dir>>

\* smart_map_columns; its exception is caught and False returned
MapColumns ==
    /\ pc = "loop" /\ stage = "map"
    /\ IF fate[file_idx] = "map"
       THEN NextFile
       ELSE /\ stage' = "write"
            /\ UNCHANGED <<pc, file_idx, attempted, exit_status>>
    /\ UNCHANGED <<indexVars, mapVars, csv_files, fate, success_count, output_dir>>

\* final_df.to_csv(output_path): either the file is written and True returned, which main
\* counts, or to_csv raises, with or without a truncated file left at its own path
WriteCsv ==
    /\ pc = "loop" /\ stage = "write"
    /\ LET path == output_path(csv_files[file_idx])
           Written(content) == [q \in DOMAIN output_dir \cup {path} |->
                                   IF q = path THEN content ELSE output_dir[q]]
       IN IF fate[file_idx] = "write"
          THEN /\ output_dir' \in {output_dir, Written("truncated " \o csv_files[file_idx])}
               /\ UNCHANGED success_count
          ELSE /\ output_dir' = Written("cleaned " \o csv_files[file_idx])
               /\ success_count' = success_count + 1
    /\ NextFile
    /\ UNCHANGED <<indexVars, mapVars, csv_files, fate>>

NextMain ==
    \/ StartRun
    \/ ReadCsv
    \/ MapColumns
    \/ WriteCsv

SpecMain == InitMain /\ [][NextMain]_vars

\* C6: a run that finds no CSV file processes nothing, writes no output file and ends with
\* a non-zero exit status.
C6_NoInputIsFatal ==
    (pc = "exit" /\ csv_files = <<>>) =>
        /\ attempted = <<>>
        /\ output_dir = <<>>
        /\ exit_status # 0

\* the files whose processing completes
Completing == {k \in 1..Len(csv_files) : fate[k] = "none"}

\* every file is handed to process_file once and in order, none is skipped because another
\* failed, one file is in work at a time, until main returns the run stands at one of its
\* steps, and the count at the end is that of the files that completed, each of which has
\* its output
files_in_order ==
    /\ attempted = SubSeq(csv_files, 1, file_idx)
    /\ pc # "exit" => (pc = "start" \/ (pc = "loop" /\ stage \in {"read", "map", "write"}))
    /\ stage # "idle" => file_idx \in 1..Len(csv_files)
    /\ success_count = Cardinality({k \in Completing : k < file_idx \/ (k = file_idx /\ pc = "exit")})
    /\ pc = "exit" =>
          /\ attempted = csv_files
          /\ success_count = Cardinality(Completing)
          /\ \A k \in Completing :
                /\ output_path(csv_files[k]) \in DOMAIN output_dir
                /\ output_dir[output_path(csv_files[k])] = "cleaned " \o csv_files[k]

\* a step touches no output but that of the file in work, and the next file starts only
\* when the one in work has returned
outputs_isolated ==
    /\ \A q \in DOMAIN output_dir :
          (file_idx = 0 \/ q # output_path(csv_files[file_idx])) =>
              q \in DOMAIN output_dir' /\ output_dir'[q] = output_dir[q]
    /\ file_idx' # file_idx =>
          /\ file_idx' = file_idx + 1
          /\ stage' = "read"
          /\ pc = "start" \/ stage = "write" \/ fate[file_idx] = stage

\* C7: whatever subset of the files fails, and wherever, every file is attempted exactly
\* once and in order, each is processed to its end before the next begins, no failure stops
\* the run, a failing file leaves the outputs of the other files as they are, and the final
\* success count is the number of files whose processing completed.
C7_FailureIsolation == [](files_in_order) /\ [][outputs_isolated]_vars

\* three files, the middle one failing in smart_map_columns and the last one in to_csv
\* leaving a truncated file behind: the run ends with one success and the first output intact
C7_Witness ==
    /\ pc = "exit"
    /\ Len(csv_files) = 3
    /\ fate = <<"none", "map", "write">>
    /\ success_count = 1
    /\ output_dir[output_path(csv_files[1])] = "cleaned " \o csv_files[1]
    /\ output_path(csv_files[3]) \in DOMAIN output_dir

====
